---------------------------- MODULE Spec2Model ----------------------------
(***************************************************************************)
(* A model of the storyteller engine: the plot graph of PlotManager        *)
(* (src/src/story/plot_manager.py) and the chapter generation, context     *)
(* window and session of StoryEngine (src/src/core/story_engine.py).       *)
(*                                                                         *)
(* Texts are Python strings in run-length form: a sequence of runs         *)
(* [c |-> character, n |-> count], n >= 1, adjacent runs of different      *)
(* characters; "" is <<>>.  len(), slicing and split() are computed on     *)
(* that form.                                                              *)
(***************************************************************************)
EXTENDS Integers, Sequences, FiniteSets, TLC

VARIABLES
    plot_points,          \* PlotManager.plot_points: id -> PlotPoint
    unresolved_mysteries, \* PlotManager.unresolved_mysteries
    revealed_secrets,     \* PlotManager.revealed_secrets
    story_arcs,           \* PlotManager.story_arcs: id -> StoryArc
    generated_chapters,   \* StoryEngine.generated_chapters: number -> text
    chapter_metadata,     \* StoryEngine.chapter_metadata: number -> metadata
    context_window,       \* StoryEngine.context_window
    current_session,      \* StoryEngine.current_session (NoSession or a record)
    inflight,             \* coroutines suspended at the generator await
    last,                 \* the operation that returned last
    pre,                  \* the engine state when that operation was called
    nops                  \* number of operations called so far

vars == <<plot_points, unresolved_mysteries, revealed_secrets, story_arcs,
          generated_chapters, chapter_metadata, context_window,
          current_session, inflight, last, pre, nops>>

-----------------------------------------------------------------------------
(* Bounds of the model *)

MaxPlotOps == 3
MaxAppends == 11
MaxCalls == 2
MaxChapter == 2
MaxTotal == 13
MaxContinueCalls == 3

-----------------------------------------------------------------------------
(* Python strings in run-length form *)

Run(c, n) == [c |-> c, n |-> n]

RECURSIVE StrLen(_)
StrLen(t) == IF t = <<>> THEN 0 ELSE Head(t).n + StrLen(Tail(t))

\* sub in t, both in run-length form: the first and the last run of sub may
\* be parts of runs of t, the runs between them are whole runs of t
Occurs(sub, t) ==
    \/ sub = <<>>
    \/ \E j \in 1..(Len(t) - Len(sub) + 1) :
          \A i \in 1..Len(sub) :
              /\ t[j + i - 1].c = sub[i].c
              /\ IF i = 1 \/ i = Len(sub)
                 THEN t[j + i - 1].n >= sub[i].n
                 ELSE t[j + i - 1].n = sub[i].n

RECURSIVE Prefix(_, _)
Prefix(t, k) ==
    IF t = <<>> \/ k <= 0 THEN <<>>
    ELSE IF Head(t).n <= k
         THEN <<Head(t)>> \o Prefix(Tail(t), k - Head(t).n)
         ELSE <<Run(Head(t).c, k)>>

IsSpace(c) == c \in {" ", "\n", "\t"}

WordCount(t) ==
    Cardinality({i \in 1..Len(t) :
                    /\ ~IsSpace(t[i].c)
                    /\ (i = 1 \/ IsSpace(t[i-1].c))})

\* a + b on strings: the last run of a and the first run of b merge when they
\* repeat the same character
Concat(a, b) ==
    IF a = <<>> THEN b
    ELSE IF b = <<>> THEN a
    ELSE IF a[Len(a)].c = b[1].c
         THEN SubSeq(a, 1, Len(a) - 1)
              \o <<Run(b[1].c, a[Len(a)].n + b[1].n)>>
              \o Tail(b)
         ELSE a \o b

-----------------------------------------------------------------------------
(* StoryEngine: the context window *)

max_context_size == 50000
FragmentCap == 5000

RECURSIVE SumLen(_)
SumLen(win) == IF win = <<>> THEN 0 ELSE StrLen(Head(win)) + SumLen(Tail(win))

TruncateNone(new_text) == new_text

Truncate(new_text) == Prefix(new_text, FragmentCap)

EvictNever(win) == win

RECURSIVE EvictNewest(_)
EvictNewest(win) ==
    IF SumLen(win) > max_context_size
    THEN EvictNewest(SubSeq(win, 1, Len(win) - 1))
    ELSE win

RECURSIVE Evict(_)
Evict(win) ==
    IF SumLen(win) > max_context_size THEN Evict(Tail(win)) ELSE win

update_context(win, new_text) == Evict(Append(win, Truncate(new_text)))

-----------------------------------------------------------------------------
(* The texts the generator may return *)

EmptyText == <<>>
ShortText == <<Run("a", 1500), Run(" ", 1), Run("b", 999)>>
LongText == <<Run("a", 60000)>>
Texts == {EmptyText, ShortText, LongText}

-----------------------------------------------------------------------------
(* PlotManager: the plot graph and the two mystery sets *)

PLANNED == "planned"
ACTIVE == "active"
RESOLVED == "resolved"
ABANDONED == "abandoned"
BACKGROUND == "background"

NoChapter == 0
NoError == "none"

PlotPoint(id, importance, status, dependencies) ==
    [id |-> id, importance |-> importance, status |-> status,
     chapter_introduced |-> NoChapter, chapter_resolved |-> NoChapter,
     dependencies |-> dependencies, notes |-> <<>>]

Contains(seq, x) == \E i \in 1..Len(seq) : seq[i] = x

PutKey(f, k, v) == [x \in DOMAIN f \cup {k} |-> IF x = k THEN v ELSE f[x]]

StoryArc(id, name, arc_points) ==
    [id |-> id, name |-> name, plot_points |-> arc_points]

EmptyManager ==
    [plot_points |-> <<>>, unresolved_mysteries |-> {}, revealed_secrets |-> {},
     story_arcs |-> <<>>]

Returned(pm) == [pm |-> pm, raised |-> NoError]

add_plot_point(pm, plot_point) ==
    [pm EXCEPT
        !.plot_points = PutKey(pm.plot_points, plot_point.id, plot_point),
        !.unresolved_mysteries =
            IF plot_point.status = ACTIVE THEN @ \cup {plot_point.id} ELSE @]

critical_plots ==
    << PlotPoint("king_killing", "critical", PLANNED, <<>>),
       PlotPoint("chandrian_confrontation", "critical", PLANNED,
                 <<"amyr_truth", "denna_secret">>),
       PlotPoint("doors_of_stone", "critical", PLANNED, <<>>),
       PlotPoint("kvothe_transformation", "critical", PLANNED, <<>>),
       PlotPoint("denna_revelation", "critical", PLANNED, <<>>) >>

SeedMysteries ==
    {"lackless_box", "amyr_purpose", "chandrian_curse", "cthaeh_prophecy",
     "auri_nature", "bast_plans", "skin_dancers", "scrael_origin",
     "waystone_significance"}

\* The arcs' names stand for "Возвращение силы", "Охота на Чандриан",
\* "Трагедия любви" and "Легенда против человека".
main_arcs ==
    << StoryArc("return_of_power", "Return of power", <<>>),
       StoryArc("chandrian_hunt", "Hunt for the Chandrian",
                <<"chandrian_confrontation", "amyr_truth">>),
       StoryArc("love_tragedy", "Tragedy of love",
                <<"denna_revelation", "denna_choice">>),
       StoryArc("legend_vs_man", "Legend against man",
                <<"kvothe_transformation", "final_choice">>) >>

add_story_arc(pm, arc) ==
    [pm EXCEPT !.story_arcs = PutKey(pm.story_arcs, arc.id, arc)]

RECURSIVE AddAllArcs(_, _)
AddAllArcs(pm, arcs) ==
    IF arcs = <<>> THEN pm
    ELSE AddAllArcs(add_story_arc(pm, Head(arcs)), Tail(arcs))

RECURSIVE AddAll(_, _)
AddAll(pm, plots) ==
    IF plots = <<>> THEN pm
    ELSE AddAll(add_plot_point(pm, Head(plots)), Tail(plots))

initialize_book_three_plots ==
    [AddAllArcs(AddAll(EmptyManager, critical_plots), main_arcs) EXCEPT
        !.unresolved_mysteries = SeedMysteries]

DependentsOfAnyStatus(pp, plot_id) ==
    {o \in DOMAIN pp : Contains(pp[o].dependencies, plot_id)}

Dependents(pp, plot_id) ==
    {o \in DOMAIN pp :
        Contains(pp[o].dependencies, plot_id) /\ pp[o].status = PLANNED}

Activate(pm, ids) ==
    [pm EXCEPT
        !.plot_points =
            [o \in DOMAIN pm.plot_points |->
                IF o \in ids
                THEN [pm.plot_points[o] EXCEPT !.status = ACTIVE]
                ELSE pm.plot_points[o]],
        !.unresolved_mysteries =
            @ \cup {pm.plot_points[o].id : o \in ids}]

CascadeStatusOnly(pm, plot_id) ==
    [Activate(pm, Dependents(pm.plot_points, plot_id)) EXCEPT
        !.unresolved_mysteries = pm.unresolved_mysteries]

CascadeTransitive(pm, plot_id) ==
    LET first == Dependents(pm.plot_points, plot_id)
        second == UNION {Dependents(pm.plot_points, d) : d \in first}
    IN  Activate(pm, first \cup second)

Cascade(pm, plot_id) == Activate(pm, Dependents(pm.plot_points, plot_id))

MarkResolvedReplacingNotes(pm, plot_id, resolution, chapter) ==
    [pm EXCEPT
        !.plot_points[plot_id] =
            [@ EXCEPT !.status = RESOLVED,
                      !.chapter_resolved = chapter,
                      !.notes = <<[chapter |-> chapter,
                                   resolution |-> resolution]>>]]

MarkResolved(pm, plot_id, resolution, chapter) ==
    [pm EXCEPT
        !.plot_points[plot_id] =
            [@ EXCEPT !.status = RESOLVED,
                      !.chapter_resolved = chapter,
                      !.notes = Append(@, [chapter |-> chapter,
                                           resolution |-> resolution])]]

Reveal(pm, plot_id) ==
    IF plot_id \in pm.unresolved_mysteries
    THEN [pm EXCEPT !.unresolved_mysteries = @ \ {plot_id},
                    !.revealed_secrets = @ \cup {plot_id}]
    ELSE pm

resolve_raises(pm, plot_id, resolution, chapter) ==
    IF plot_id \in DOMAIN pm.plot_points
    THEN Returned(Cascade(Reveal(MarkResolved(pm, plot_id, resolution,
                                              chapter), plot_id), plot_id))
    ELSE [pm |-> pm, raised |-> "NotFound"]

resolve_reveals_unknown(pm, plot_id, resolution, chapter) ==
    IF plot_id \in DOMAIN pm.plot_points
    THEN Returned(Cascade(Reveal(MarkResolved(pm, plot_id, resolution,
                                              chapter), plot_id), plot_id))
    ELSE Returned(Reveal(pm, plot_id))

resolve_plot_point(pm, plot_id, resolution, chapter) ==
    IF plot_id \in DOMAIN pm.plot_points
    THEN Returned(Cascade(Reveal(MarkResolved(pm, plot_id, resolution,
                                              chapter), plot_id), plot_id))
    ELSE Returned(pm)

introduce_always_activates(pm, plot_id, chapter) ==
    IF plot_id \in DOMAIN pm.plot_points
    THEN Returned(
           [pm EXCEPT
              !.plot_points[plot_id] =
                  [@ EXCEPT !.chapter_introduced = chapter,
                            !.status = ACTIVE],
              !.unresolved_mysteries = @ \cup {plot_id}])
    ELSE Returned(pm)

introduce_plot_point(pm, plot_id, chapter) ==
    IF plot_id \in DOMAIN pm.plot_points
    THEN LET plot == pm.plot_points[plot_id]
         IN  Returned(
               [pm EXCEPT
                  !.plot_points[plot_id] =
                      [@ EXCEPT !.chapter_introduced = chapter,
                                !.status = IF plot.status = PLANNED
                                           THEN ACTIVE ELSE @],
                  !.unresolved_mysteries =
                      IF plot.status = PLANNED THEN @ \cup {plot_id} ELSE @])
    ELSE Returned(pm)

RECURSIVE DependenciesMetStrictly(_, _)
DependenciesMetStrictly(pp, deps) ==
    IF deps = <<>> THEN TRUE
    ELSE IF Head(deps) \in DOMAIN pp
         THEN IF pp[Head(deps)].status # RESOLVED THEN FALSE
              ELSE DependenciesMetStrictly(pp, Tail(deps))
         ELSE FALSE

check_dependencies_missing_blocks(pm, plot_id) ==
    IF plot_id \notin DOMAIN pm.plot_points THEN FALSE
    ELSE DependenciesMetStrictly(pm.plot_points,
                                 pm.plot_points[plot_id].dependencies)

RECURSIVE DependenciesMet(_, _)
DependenciesMet(pp, deps) ==
    IF deps = <<>> THEN TRUE
    ELSE IF Head(deps) \in DOMAIN pp
         THEN IF pp[Head(deps)].status # RESOLVED THEN FALSE
              ELSE DependenciesMet(pp, Tail(deps))
         ELSE DependenciesMet(pp, Tail(deps))

check_dependencies(pm, plot_id) ==
    IF plot_id \notin DOMAIN pm.plot_points THEN FALSE
    ELSE DependenciesMet(pm.plot_points, pm.plot_points[plot_id].dependencies)

-----------------------------------------------------------------------------
(* PlotManager: suggestions for the next plot development *)

\* plot_points is a dict and is iterated in insertion order: the seeded
\* points first, then "denna_secret", the only other id the model adds
KeyOrder(pp) ==
    SelectSeq([i \in 1..Len(critical_plots) |-> critical_plots[i].id]
                  \o <<"denna_secret">>,
              LAMBDA id : id \in DOMAIN pp)

Values(pp) == [i \in 1..Len(KeyOrder(pp)) |-> pp[KeyOrder(pp)[i]]]

get_active_plots(pm) ==
    SelectSeq(Values(pm.plot_points), LAMBDA p : p.status = ACTIVE)

UnresolvedDepsAll(pm, plot) == plot.dependencies

UnresolvedDeps(pm, plot) ==
    SelectSeq(plot.dependencies, LAMBDA d : d \notin pm.revealed_secrets)

Immediate(pm) ==
    LET active_critical ==
            SelectSeq(get_active_plots(pm), LAMBDA p : p.importance = "critical")
    IN  IF Len(active_critical) > 3 THEN SubSeq(active_critical, 1, 2)
        ELSE <<>>

Building(pm) ==
    LET waiting ==
            SelectSeq(Values(pm.plot_points),
                      LAMBDA p : /\ p.status = PLANNED
                                 /\ p.dependencies # <<>>
                                 /\ UnresolvedDeps(pm, p) # <<>>)
    IN  [i \in 1..Len(waiting) |->
            [plot |-> waiting[i], needs |-> UnresolvedDeps(pm, waiting[i])]]

suggest_next_plot_development(pm) ==
    [immediate |-> Immediate(pm),
     ready |-> SelectSeq(Values(pm.plot_points),
                         LAMBDA p : /\ p.status = PLANNED
                                    /\ check_dependencies(pm, p.id)),
     building |-> Building(pm)]

-----------------------------------------------------------------------------
(* PlotManager: progress of a story arc *)

PhaseNotStarted == "not started"     \* "не начата"
PhaseExposition == "exposition"      \* "экспозиция"
PhaseRising == "rising"              \* "развитие"
PhaseComplication == "complication"  \* "усложнение"
PhaseClimax == "climax"              \* "кульминация"
PhaseResolution == "resolution"      \* "развязка"
PhaseComplete == "complete"          \* "завершена"

determine_arc_phase_zero_not_started(resolved, total) ==
    IF total = 0 THEN PhaseNotStarted
    ELSE IF resolved = 0 THEN PhaseNotStarted
    ELSE IF 10 * resolved < 3 * total THEN PhaseRising
    ELSE IF 10 * resolved < 6 * total THEN PhaseComplication
    ELSE IF 10 * resolved < 8 * total THEN PhaseClimax
    ELSE IF resolved < total THEN PhaseResolution
    ELSE PhaseComplete

\* progress = resolved / total is compared with 0.3, 0.6, 0.8 and 1.0; for the
\* totals of the model the float comparison agrees with the exact one on
\* integers (resolved / total < 0.3 iff 10 * resolved < 3 * total).
determine_arc_phase(resolved, total) ==
    IF total = 0 THEN PhaseNotStarted
    ELSE IF resolved = 0 THEN PhaseExposition
    ELSE IF 10 * resolved < 3 * total THEN PhaseRising
    ELSE IF 10 * resolved < 6 * total THEN PhaseComplication
    ELSE IF 10 * resolved < 8 * total THEN PhaseClimax
    ELSE IF resolved < total THEN PhaseResolution
    ELSE PhaseComplete

RECURSIVE ResolvedCount(_, _)
ResolvedCount(pp, ids) ==
    IF ids = <<>> THEN 0
    ELSE (IF Head(ids) \in DOMAIN pp /\ pp[Head(ids)].status = RESOLVED
          THEN 1 ELSE 0) + ResolvedCount(pp, Tail(ids))

RECURSIVE PresentCount(_, _)
PresentCount(pp, ids) ==
    IF ids = <<>> THEN 0
    ELSE (IF Head(ids) \in DOMAIN pp THEN 1 ELSE 0)
         + PresentCount(pp, Tail(ids))

\* The float resolved / total * 100 is kept as the fraction num / den.
Percentage(resolved, total) ==
    IF total > 0 THEN [num |-> resolved * 100, den |-> total]
    ELSE [num |-> 0, den |-> 1]

NoProgress == <<>>

ArcProgress(arc, resolved, total) ==
    [arc_name |-> arc.name,
     progress_percentage |-> Percentage(resolved, total),
     resolved |-> resolved,
     total |-> total,
     current_phase |-> determine_arc_phase(resolved, total)]

get_arc_progress_present_only(pm, arc_id) ==
    IF arc_id \notin DOMAIN pm.story_arcs THEN NoProgress
    ELSE LET arc == pm.story_arcs[arc_id]
         IN  ArcProgress(arc, ResolvedCount(pm.plot_points, arc.plot_points),
                         PresentCount(pm.plot_points, arc.plot_points))

get_arc_progress(pm, arc_id) ==
    IF arc_id \notin DOMAIN pm.story_arcs THEN NoProgress
    ELSE LET arc == pm.story_arcs[arc_id]
         IN  ArcProgress(arc, ResolvedCount(pm.plot_points, arc.plot_points),
                         Len(arc.plot_points))

-----------------------------------------------------------------------------
(* The state of one engine, and its snapshot *)

NoSession == <<>>

Manager ==
    [plot_points |-> plot_points,
     unresolved_mysteries |-> unresolved_mysteries,
     revealed_secrets |-> revealed_secrets,
     story_arcs |-> story_arcs]

Snapshot ==
    [plot_points |-> plot_points,
     unresolved_mysteries |-> unresolved_mysteries,
     revealed_secrets |-> revealed_secrets,
     story_arcs |-> story_arcs,
     generated_chapters |-> generated_chapters,
     chapter_metadata |-> chapter_metadata,
     context_window |-> context_window,
     current_session |-> current_session]

ManagerOf(snap) ==
    [plot_points |-> snap.plot_points,
     unresolved_mysteries |-> snap.unresolved_mysteries,
     revealed_secrets |-> snap.revealed_secrets,
     story_arcs |-> snap.story_arcs]

SetManager(pm) ==
    /\ plot_points' = pm.plot_points
    /\ unresolved_mysteries' = pm.unresolved_mysteries
    /\ revealed_secrets' = pm.revealed_secrets
    /\ story_arcs' = pm.story_arcs

Init ==
    /\ plot_points = initialize_book_three_plots.plot_points
    /\ unresolved_mysteries = initialize_book_three_plots.unresolved_mysteries
    /\ revealed_secrets = initialize_book_three_plots.revealed_secrets
    /\ story_arcs = initialize_book_three_plots.story_arcs
    /\ generated_chapters = <<>>
    /\ chapter_metadata = <<>>
    /\ context_window = <<>>
    /\ current_session = NoSession
    /\ inflight = <<>>
    /\ last = [op |-> "init"]
    /\ pre = [plot_points |-> <<>>, unresolved_mysteries |-> {},
              revealed_secrets |-> {}, story_arcs |-> <<>>,
              generated_chapters |-> <<>>,
              chapter_metadata |-> <<>>, context_window |-> <<>>,
              current_session |-> NoSession]
    /\ nops = 0

engineVars == <<generated_chapters, chapter_metadata, context_window,
                current_session, inflight>>

-----------------------------------------------------------------------------
(* StoryEngine: sessions and chapter generation *)

NewSession == <<[chapters_generated |-> <<>>, total_words |-> 0]>>

start_session(st) == [st EXCEPT !.current_session = NewSession]

RECURSIVE IntroduceAll(_, _, _)
IntroduceAll(pm, ids, chapter) ==
    IF ids = <<>> THEN Returned(pm)
    ELSE LET r == introduce_plot_point(pm, Head(ids), chapter)
         IN  IF r.raised # NoError THEN r
             ELSE IntroduceAll(r.pm, Tail(ids), chapter)

\* the resolution note f"Разрешено в главе {n}" is the pair below
ResolutionNote(chapter) == <<"resolved in chapter", chapter>>

RECURSIVE ResolveAll(_, _, _)
ResolveAll(pm, ids, chapter) ==
    IF ids = <<>> THEN Returned(pm)
    ELSE LET r == resolve_plot_point(pm, Head(ids), ResolutionNote(chapter),
                                     chapter)
         IN  IF r.raised # NoError THEN r
             ELSE ResolveAll(r.pm, Tail(ids), chapter)

KnownOnly(pm, ids) == SelectSeq(ids, LAMBDA id : id \in DOMAIN pm.plot_points)

update_plot_state_all_or_nothing(pm, config) ==
    IF \/ KnownOnly(pm, config.plot_points_to_introduce)
            # config.plot_points_to_introduce
       \/ KnownOnly(pm, config.plot_points_to_resolve)
            # config.plot_points_to_resolve
    THEN Returned(pm)
    ELSE ResolveAll(IntroduceAll(pm, config.plot_points_to_introduce,
                                 config.chapter_number).pm,
                    config.plot_points_to_resolve, config.chapter_number)

update_plot_state(pm, config) ==
    LET r == IntroduceAll(pm, config.plot_points_to_introduce,
                          config.chapter_number)
    IN  IF r.raised # NoError THEN r
        ELSE ResolveAll(r.pm, config.plot_points_to_resolve,
                        config.chapter_number)

Metadata(config, chapter_text) ==
    [chapter_number |-> config.chapter_number,
     narrative_type |-> config.narrative_type,
     word_count |-> WordCount(chapter_text),
     plot_points_introduced |-> config.plot_points_to_introduce,
     plot_points_resolved |-> config.plot_points_to_resolve]

WithManager(st, pm) ==
    [st EXCEPT !.plot_points = pm.plot_points,
               !.unresolved_mysteries = pm.unresolved_mysteries,
               !.revealed_secrets = pm.revealed_secrets,
               !.story_arcs = pm.story_arcs]

SessionAddReplacingTotal(session, chapter_number, word_count) ==
    <<[chapters_generated |-> Append(session[1].chapters_generated,
                                     chapter_number),
       total_words |-> word_count]>>

SessionAdd(session, chapter_number, word_count) ==
    <<[chapters_generated |-> Append(session[1].chapters_generated,
                                     chapter_number),
       total_words |-> session[1].total_words + word_count]>>

\* generate_chapter up to the await of the generator: the session is ensured
generate_chapter_begin_new_session(st) == start_session(st)

generate_chapter_begin(st) ==
    IF st.current_session = NoSession THEN start_session(st) ELSE st

\* stages 6-8, run when the generator has returned chapter_text
RecordChapter(st, config, chapter_text) ==
    LET metadata == Metadata(config, chapter_text)
        stored == [st EXCEPT
            !.generated_chapters =
                PutKey(@, config.chapter_number, chapter_text),
            !.chapter_metadata = PutKey(@, config.chapter_number, metadata),
            !.context_window = update_context(@, chapter_text)]
        r == update_plot_state(ManagerOf(stored), config)
        plotted == WithManager(stored, r.pm)
    IN  IF r.raised # NoError THEN [st |-> plotted, raised |-> r.raised]
        ELSE [st |-> [plotted EXCEPT !.current_session =
                        SessionAdd(@, config.chapter_number,
                                   metadata.word_count)],
              raised |-> NoError]

generate_chapter_plots_on_failure(st, config, result) ==
    IF result.raised # NoError
    THEN [st |-> WithManager(st, update_plot_state(ManagerOf(st), config).pm),
          raised |-> result.raised]
    ELSE RecordChapter(st, config, result.text)

generate_chapter_counts_failure(st, config, result) ==
    IF result.raised # NoError
    THEN [st |-> [st EXCEPT !.current_session =
                    SessionAdd(@, config.chapter_number, 0)],
          raised |-> result.raised]
    ELSE RecordChapter(st, config, result.text)

\* generate_chapter from the await on: the try block and its handler, which
\* re-raises what the generator raised
generate_chapter_resume(st, config, result) ==
    IF result.raised # NoError
    THEN [st |-> st, raised |-> result.raised]
    ELSE RecordChapter(st, config, result.text)

SetEngine(st) ==
    /\ SetManager(ManagerOf(st))
    /\ generated_chapters' = st.generated_chapters
    /\ chapter_metadata' = st.chapter_metadata
    /\ context_window' = st.context_window
    /\ current_session' = st.current_session

Remove(seq, i) == SubSeq(seq, 1, i - 1) \o SubSeq(seq, i + 1, Len(seq))

IntroduceLists == {<<>>, <<"skin_dancers", "king_killing">>}
ResolveLists == {<<>>, <<"king_killing">>}

Configs ==
    [chapter_number : 1..MaxChapter,
     narrative_type : {"frame"},
     plot_points_to_introduce : IntroduceLists,
     plot_points_to_resolve : ResolveLists]

StartSession ==
    /\ inflight = <<>>
    /\ nops < MaxCalls
    /\ SetEngine(start_session(Snapshot))
    /\ last' = [op |-> "start_session", raised |-> NoError]
    /\ pre' = Snapshot
    /\ nops' = nops + 1
    /\ UNCHANGED inflight

GenerateChapterCallWith(config) ==
    /\ inflight = <<>>
    /\ nops < MaxCalls
    /\ SetEngine(generate_chapter_begin(Snapshot))
    /\ inflight' = Append(inflight, [op |-> "generate_chapter",
                                     config |-> config,
                                     pre |-> Snapshot])
    /\ nops' = nops + 1
    /\ UNCHANGED <<last, pre>>

GenerateChapterCall == \E config \in Configs : GenerateChapterCallWith(config)

GenerateChapterResume(i, result) ==
    LET call == inflight[i]
        r == generate_chapter_resume(Snapshot, call.config, result)
    IN  /\ call.op = "generate_chapter"
        /\ SetEngine(r.st)
        /\ inflight' = Remove(inflight, i)
        /\ last' = [op |-> "generate_chapter", config |-> call.config,
                    generator |-> result, raised |-> r.raised]
        /\ pre' = call.pre
        /\ UNCHANGED nops

GeneratorReturns ==
    \E i \in 1..Len(inflight), chapter_text \in Texts :
        GenerateChapterResume(i, [raised |-> NoError, text |-> chapter_text])

GeneratorRaises ==
    \E i \in 1..Len(inflight) :
        GenerateChapterResume(i, [raised |-> "GenerationError",
                                  text |-> EmptyText])

NextEngine ==
    StartSession \/ GenerateChapterCall \/ GeneratorReturns \/ GeneratorRaises

SpecEngine == Init /\ [][NextEngine]_vars

\* configs whose lists name ids that are not in the plot graph
\* ("skin_dancers", "amyr_truth") between ids that are
MixedIntroduceLists ==
    {<<"doors_of_stone">>, <<"king_killing", "skin_dancers", "doors_of_stone">>}
MixedResolveLists ==
    {<<>>, <<"king_killing", "amyr_truth", "doors_of_stone">>}

MixedConfigs ==
    [chapter_number : 1..MaxChapter,
     narrative_type : {"frame"},
     plot_points_to_introduce : MixedIntroduceLists,
     plot_points_to_resolve : MixedResolveLists]

GenerateChapterCallMixed ==
    \E config \in MixedConfigs : GenerateChapterCallWith(config)

NextStage8 ==
    \/ StartSession \/ GenerateChapterCallMixed
    \/ GeneratorReturns \/ GeneratorRaises

SpecStage8 == Init /\ [][NextStage8]_vars

-----------------------------------------------------------------------------
(* StoryEngine: generate_chapter calls that overlap at the generator await *)

\* Every call still suspended learns of a call that completes meanwhile.
NoteCompletion(calls, config, result) ==
    [j \in 1..Len(calls) |->
        [calls[j] EXCEPT !.done = Append(@, [config |-> config,
                                            result |-> result])]]

\* the configs that introduce plot points or resolve them, not both
OverlapConfigs ==
    {config \in Configs :
        (config.plot_points_to_introduce = <<>>)
            # (config.plot_points_to_resolve = <<>>)}

OverlapGenerateCall ==
    \E config \in OverlapConfigs :
        /\ nops < MaxCalls
        /\ SetEngine(generate_chapter_begin(Snapshot))
        /\ inflight' = Append(inflight, [op |-> "generate_chapter",
                                         config |-> config,
                                         pre |-> Snapshot,
                                         done |-> <<>>])
        /\ nops' = nops + 1
        /\ UNCHANGED <<last, pre>>

OverlapGenerateResume(i, result) ==
    LET call == inflight[i]
        r == generate_chapter_resume(Snapshot, call.config, result)
    IN  /\ call.op = "generate_chapter"
        /\ SetEngine(r.st)
        /\ inflight' = NoteCompletion(Remove(inflight, i), call.config, result)
        /\ last' = [op |-> "generate_chapter", config |-> call.config,
                    generator |-> result, raised |-> r.raised,
                    overlapped |-> call.done]
        /\ pre' = call.pre
        /\ UNCHANGED nops

OverlapGeneratorReturns ==
    \E i \in 1..Len(inflight), chapter_text \in Texts :
        OverlapGenerateResume(i, [raised |-> NoError, text |-> chapter_text])

OverlapGeneratorRaises ==
    \E i \in 1..Len(inflight) :
        OverlapGenerateResume(i, [raised |-> "GenerationError",
                                  text |-> EmptyText])

NextOverlap ==
    OverlapGenerateCall \/ OverlapGeneratorReturns \/ OverlapGeneratorRaises

SpecOverlap == Init /\ [][NextOverlap]_vars

-----------------------------------------------------------------------------
(* StoryEngine: generate_chapter statement by statement.  A call is at the  *)
(* statement it executes next; the event loop runs one coroutine at a time  *)
(* and switches to another one only when the running one reaches an await.  *)

AwaitPointsWithContext == {"generator", "context"}

\* the positions of generate_chapter at which the coroutine is suspended:
\* the only await is `await self.client.generate_async(...)`
AwaitPoints == {"generator"}

Suspended(call) == call.at \in AwaitPoints

\* the event loop may run call i (0: a new call) when no other call is in the
\* middle of a run
MayRun(i) ==
    \A j \in 1..Len(inflight) : j # i => Suspended(inflight[j])

store_chapter(st, config, chapter_text) ==
    [st EXCEPT
        !.generated_chapters = PutKey(@, config.chapter_number, chapter_text),
        !.chapter_metadata =
            PutKey(@, config.chapter_number, Metadata(config, chapter_text))]

append_context(st, chapter_text) ==
    [st EXCEPT !.context_window = update_context(@, chapter_text)]

apply_plot_state(st, config) ==
    LET r == update_plot_state(ManagerOf(st), config)
    IN  [st |-> WithManager(st, r.pm), raised |-> r.raised]

count_chapter(st, config, chapter_text) ==
    [st EXCEPT !.current_session =
        SessionAdd(@, config.chapter_number, WordCount(chapter_text))]

Replace(seq, i, x) == [seq EXCEPT ![i] = x]

StagesCall ==
    \E config \in OverlapConfigs :
        /\ MayRun(0)
        /\ nops < MaxCalls
        /\ SetEngine(generate_chapter_begin(Snapshot))
        /\ inflight' = Append(inflight, [op |-> "generate_chapter",
                                         config |-> config,
                                         pre |-> Snapshot,
                                         at |-> "generator",
                                         text |-> EmptyText,
                                         resumed |-> Snapshot])
        /\ nops' = nops + 1
        /\ UNCHANGED <<last, pre>>

StagesReturn(i, raised) ==
    /\ inflight' = Remove(inflight, i)
    /\ last' = [op |-> "generate_chapter", config |-> inflight[i].config,
                text |-> inflight[i].text, resumed |-> inflight[i].resumed,
                raised |-> raised]
    /\ pre' = inflight[i].pre

\* the generator returns: the text and the metadata are stored
StagesStore ==
    \E i \in 1..Len(inflight), chapter_text \in Texts :
        /\ inflight[i].at = "generator"
        /\ MayRun(i)
        /\ SetEngine(store_chapter(Snapshot, inflight[i].config, chapter_text))
        /\ inflight' = Replace(inflight, i,
                                [inflight[i] EXCEPT !.at = "context",
                                                    !.text = chapter_text,
                                                    !.resumed = Snapshot])
        /\ UNCHANGED <<last, pre, nops>>

StagesGeneratorRaises ==
    \E i \in 1..Len(inflight) :
        /\ inflight[i].at = "generator"
        /\ MayRun(i)
        /\ SetEngine(Snapshot)
        /\ StagesReturn(i, "GenerationError")
        /\ UNCHANGED nops

StagesContext ==
    \E i \in 1..Len(inflight) :
        /\ inflight[i].at = "context"
        /\ MayRun(i)
        /\ SetEngine(append_context(Snapshot, inflight[i].text))
        /\ inflight' = Replace(inflight, i, [inflight[i] EXCEPT !.at = "plots"])
        /\ UNCHANGED <<last, pre, nops>>

StagesPlots ==
    \E i \in 1..Len(inflight) :
        LET r == apply_plot_state(Snapshot, inflight[i].config)
        IN  /\ inflight[i].at = "plots"
            /\ MayRun(i)
            /\ SetEngine(r.st)
            /\ IF r.raised # NoError
               THEN StagesReturn(i, r.raised)
               ELSE /\ inflight' = Replace(inflight, i,
                                    [inflight[i] EXCEPT !.at = "session"])
                    /\ UNCHANGED <<last, pre>>
            /\ UNCHANGED nops

StagesSession ==
    \E i \in 1..Len(inflight) :
        /\ inflight[i].at = "session"
        /\ MayRun(i)
        /\ SetEngine(count_chapter(Snapshot, inflight[i].config,
                                   inflight[i].text))
        /\ StagesReturn(i, NoError)
        /\ UNCHANGED nops

NextStages ==
    \/ StagesCall \/ StagesStore \/ StagesGeneratorRaises
    \/ StagesContext \/ StagesPlots \/ StagesSession

SpecStages == Init /\ [][NextStages]_vars

-----------------------------------------------------------------------------
(* StoryEngine: continuing a stored chapter *)

\* ValueError("Глава N не найдена"): the chapter was not found
ChapterNotFound == "ValueError"

BlankLine == <<Run("\n", 2)>>

continue_chapter_begin_ensures_session(st, chapter_number) ==
    IF chapter_number \notin DOMAIN st.generated_chapters
    THEN [st |-> generate_chapter_begin(st), raised |-> ChapterNotFound,
          current_text |-> EmptyText]
    ELSE [st |-> generate_chapter_begin(st), raised |-> NoError,
          current_text |-> st.generated_chapters[chapter_number]]

\* up to the await: the lookup of the stored text
continue_chapter_begin(st, chapter_number) ==
    IF chapter_number \notin DOMAIN st.generated_chapters
    THEN [st |-> st, raised |-> ChapterNotFound, current_text |-> EmptyText]
    ELSE [st |-> st, raised |-> NoError,
          current_text |-> st.generated_chapters[chapter_number]]

\* after the await; metadata["last_updated"] is a timestamp and is left out
StoreContinuation(st, chapter_number, full_text) ==
    LET stored == [st EXCEPT !.generated_chapters =
                                 PutKey(@, chapter_number, full_text)]
    IN  IF chapter_number \notin DOMAIN st.chapter_metadata
        THEN [st |-> stored, raised |-> "KeyError"]
        ELSE [st |-> [stored EXCEPT
                        !.chapter_metadata[chapter_number].word_count =
                            WordCount(full_text)],
              raised |-> NoError]

continue_chapter_updates_context(st, chapter_number, current_text, result) ==
    IF result.raised # NoError
    THEN [st |-> st, raised |-> result.raised]
    ELSE LET r == StoreContinuation(st, chapter_number,
                      Concat(Concat(current_text, BlankLine), result.text))
         IN  [r EXCEPT !.st.context_window = update_context(@, result.text)]

continue_chapter_resume(st, chapter_number, current_text, result) ==
    IF result.raised # NoError
    THEN [st |-> st, raised |-> result.raised]
    ELSE StoreContinuation(st, chapter_number,
             Concat(Concat(current_text, BlankLine), result.text))

ChapterNumbers == 1..MaxChapter
Continuations ==
    {EmptyText, <<Run("c", 700)>>, <<Run("\n", 1), Run("d", 10)>>}

ContinueChapterCall ==
    \E chapter_number \in ChapterNumbers :
        LET b == continue_chapter_begin(Snapshot, chapter_number)
        IN  /\ inflight = <<>>
            /\ nops < MaxContinueCalls
            /\ SetEngine(b.st)
            /\ nops' = nops + 1
            /\ IF b.raised # NoError
               THEN /\ last' = [op |-> "continue_chapter",
                                chapter_number |-> chapter_number,
                                generator_invoked |-> FALSE,
                                raised |-> b.raised]
                    /\ pre' = Snapshot
                    /\ UNCHANGED inflight
               ELSE /\ inflight' =
                           Append(inflight,
                                  [op |-> "continue_chapter",
                                   chapter_number |-> chapter_number,
                                   current_text |-> b.current_text,
                                   pre |-> Snapshot])
                    /\ UNCHANGED <<last, pre>>

ContinueChapterResume(i, result) ==
    LET call == inflight[i]
        r == continue_chapter_resume(Snapshot, call.chapter_number,
                                     call.current_text, result)
    IN  /\ call.op = "continue_chapter"
        /\ SetEngine(r.st)
        /\ inflight' = Remove(inflight, i)
        /\ last' = [op |-> "continue_chapter",
                    chapter_number |-> call.chapter_number,
                    generator_invoked |-> TRUE,
                    generator |-> result, raised |-> r.raised]
        /\ pre' = call.pre
        /\ UNCHANGED nops

ContinuationReturns ==
    \E i \in 1..Len(inflight), continuation \in Continuations :
        ContinueChapterResume(i, [raised |-> NoError, text |-> continuation])

ContinuationRaises ==
    \E i \in 1..Len(inflight) :
        ContinueChapterResume(i, [raised |-> "GenerationError",
                                  text |-> EmptyText])

\* edit_chapter has no await (client.edit_text is a plain call): the lookup,
\* the editor and the store are one step.  metadata["edited_at"] is a
\* timestamp and is left out; the word_count is not recomputed.
edit_chapter(st, chapter_number, result) ==
    IF chapter_number \notin DOMAIN st.generated_chapters
    THEN [st |-> st, raised |-> ChapterNotFound]
    ELSE IF result.raised # NoError
    THEN [st |-> st, raised |-> result.raised]
    ELSE LET stored == [st EXCEPT !.generated_chapters =
                                      PutKey(@, chapter_number, result.text)]
         IN  IF chapter_number \notin DOMAIN st.chapter_metadata
             THEN [st |-> stored, raised |-> "KeyError"]
             ELSE [st |-> stored, raised |-> NoError]

\* what client.edit_text may do: return a text or raise
EditedTexts == {EmptyText, LongText}
EditResults ==
    {[raised |-> NoError, text |-> edited_text] : edited_text \in EditedTexts}
        \cup {[raised |-> "EditError", text |-> EmptyText]}

EditChapterWith(chapter_number, result) ==
    LET r == edit_chapter(Snapshot, chapter_number, result)
    IN  /\ nops < MaxCalls
        /\ SetEngine(r.st)
        /\ last' = [op |-> "edit_chapter",
                    chapter_number |-> chapter_number,
                    editor |-> result, raised |-> r.raised,
                    overlapped |-> <<>>]
        /\ pre' = Snapshot
        /\ nops' = nops + 1
        /\ UNCHANGED inflight

EditChapter ==
    \E chapter_number \in ChapterNumbers, result \in EditResults :
        /\ inflight = <<>>
        /\ EditChapterWith(chapter_number, result)

NextContinue ==
    \/ GenerateChapterCall \/ GeneratorReturns \/ GeneratorRaises
    \/ ContinueChapterCall \/ ContinuationReturns \/ ContinuationRaises
    \/ EditChapter

SpecContinue == Init /\ [][NextContinue]_vars

-----------------------------------------------------------------------------
(* continue_chapter and generate_chapter calls that overlap at the generator *)
(* await                                                                     *)

\* every call still suspended learns that `call` has returned
NoteReturn(calls, call, result, raised) ==
    [j \in 1..Len(calls) |->
        [calls[j] EXCEPT !.done = Append(@, [op |-> call.op,
                                            chapter_number |->
                                                call.chapter_number,
                                            result |-> result,
                                            raised |-> raised])]]

\* the configs that name no plot points
PlainConfigs ==
    {config \in Configs :
        /\ config.plot_points_to_introduce = <<>>
        /\ config.plot_points_to_resolve = <<>>}

InterleavedGenerateCall ==
    \E config \in PlainConfigs :
        /\ nops < MaxContinueCalls
        /\ SetEngine(generate_chapter_begin(Snapshot))
        /\ inflight' = Append(inflight, [op |-> "generate_chapter",
                                         chapter_number |->
                                             config.chapter_number,
                                         config |-> config,
                                         pre |-> Snapshot,
                                         done |-> <<>>])
        /\ nops' = nops + 1
        /\ UNCHANGED <<last, pre>>

InterleavedGenerateResume(i, result) ==
    LET call == inflight[i]
        r == generate_chapter_resume(Snapshot, call.config, result)
    IN  /\ call.op = "generate_chapter"
        /\ SetEngine(r.st)
        /\ inflight' = NoteReturn(Remove(inflight, i), call, result, r.raised)
        /\ last' = [op |-> "generate_chapter",
                    chapter_number |-> call.chapter_number,
                    config |-> call.config,
                    generator |-> result, raised |-> r.raised,
                    overlapped |-> call.done]
        /\ pre' = call.pre
        /\ UNCHANGED nops

InterleavedGeneratorReturns ==
    \E i \in 1..Len(inflight), chapter_text \in Texts :
        InterleavedGenerateResume(i, [raised |-> NoError,
                                      text |-> chapter_text])

InterleavedGeneratorRaises ==
    \E i \in 1..Len(inflight) :
        InterleavedGenerateResume(i, [raised |-> "GenerationError",
                                      text |-> EmptyText])

\* continue_chapter reads the stored text (current_text) before the await
InterleavedContinueCall ==
    \E chapter_number \in ChapterNumbers :
        LET b == continue_chapter_begin(Snapshot, chapter_number)
        IN  /\ nops < MaxContinueCalls
            /\ SetEngine(b.st)
            /\ nops' = nops + 1
            /\ IF b.raised # NoError
               THEN /\ last' = [op |-> "continue_chapter",
                                chapter_number |-> chapter_number,
                                generator_invoked |-> FALSE,
                                raised |-> b.raised,
                                overlapped |-> <<>>]
                    /\ pre' = Snapshot
                    /\ UNCHANGED inflight
               ELSE /\ inflight' =
                           Append(inflight,
                                  [op |-> "continue_chapter",
                                   chapter_number |-> chapter_number,
                                   current_text |-> b.current_text,
                                   pre |-> Snapshot,
                                   done |-> <<>>])
                    /\ UNCHANGED <<last, pre>>

\* and writes current_text + "\n\n" + continuation after it
InterleavedContinueResume(i, result) ==
    LET call == inflight[i]
        r == continue_chapter_resume(Snapshot, call.chapter_number,
                                     call.current_text, result)
    IN  /\ call.op = "continue_chapter"
        /\ SetEngine(r.st)
        /\ inflight' = NoteReturn(Remove(inflight, i), call, result, r.raised)
        /\ last' = [op |-> "continue_chapter",
                    chapter_number |-> call.chapter_number,
                    generator_invoked |-> TRUE,
                    generator |-> result, raised |-> r.raised,
                    overlapped |-> call.done]
        /\ pre' = call.pre
        /\ UNCHANGED nops

InterleavedContinuationReturns ==
    \E i \in 1..Len(inflight), continuation \in Continuations :
        InterleavedContinueResume(i, [raised |-> NoError,
                                      text |-> continuation])

InterleavedContinuationRaises ==
    \E i \in 1..Len(inflight) :
        InterleavedContinueResume(i, [raised |-> "GenerationError",
                                      text |-> EmptyText])

\* edit_chapter runs to its end whenever the event loop starts it, also
\* while other calls are suspended
InterleavedEditChapter ==
    \E chapter_number \in ChapterNumbers, result \in EditResults :
        EditChapterWith(chapter_number, result)

NextInterleaved ==
    \/ InterleavedEditChapter
    \/ InterleavedGenerateCall
    \/ InterleavedGeneratorReturns
    \/ InterleavedGeneratorRaises
    \/ InterleavedContinueCall
    \/ InterleavedContinuationReturns
    \/ InterleavedContinuationRaises

SpecInterleaved == Init /\ [][NextInterleaved]_vars

-----------------------------------------------------------------------------
(* Direct calls on the plot manager *)

AddIds == {"king_killing", "denna_secret"}
AddStatuses == {PLANNED, ACTIVE, ABANDONED}
AddDeps == {<<>>, <<"king_killing">>}
OpIds == {"king_killing", "denna_secret", "chandrian_confrontation",
          "skin_dancers"}
Chapters == 1..MaxChapter
Resolutions == {<<"done">>}

AddPlotPointWith(id, status, deps) ==
    /\ nops < MaxPlotOps
    /\ SetManager(add_plot_point(Manager, PlotPoint(id, "major", status, deps)))
    /\ last' = [op |-> "add", id |-> id, raised |-> NoError]
    /\ pre' = Snapshot
    /\ nops' = nops + 1
    /\ UNCHANGED engineVars

AddPlotPoint ==
    \E id \in AddIds, status \in AddStatuses, deps \in AddDeps :
        AddPlotPointWith(id, status, deps)

IntroducePlotPoint ==
    \E plot_id \in OpIds, chapter \in Chapters :
        LET r == introduce_plot_point(Manager, plot_id, chapter)
        IN  /\ nops < MaxPlotOps
            /\ SetManager(r.pm)
            /\ last' = [op |-> "introduce", id |-> plot_id,
                        chapter |-> chapter, raised |-> r.raised]
            /\ pre' = Snapshot
            /\ nops' = nops + 1
            /\ UNCHANGED engineVars

ResolvePlotPoint ==
    \E plot_id \in OpIds, chapter \in Chapters, resolution \in Resolutions :
        LET r == resolve_plot_point(Manager, plot_id, resolution, chapter)
        IN  /\ nops < MaxPlotOps
            /\ SetManager(r.pm)
            /\ last' = [op |-> "resolve", id |-> plot_id,
                        chapter |-> chapter, resolution |-> resolution,
                        raised |-> r.raised]
            /\ pre' = Snapshot
            /\ nops' = nops + 1
            /\ UNCHANGED engineVars

NextPlot == AddPlotPoint \/ IntroducePlotPoint \/ ResolvePlotPoint

SpecPlot == Init /\ [][NextPlot]_vars

-----------------------------------------------------------------------------
(* Story arcs: adding arcs and querying their progress *)

ArcIds == {"chandrian_hunt", "side_arc"}
ArcLists ==
    {<<>>, <<"king_killing">>, <<"king_killing", "king_killing">>,
     <<"king_killing", "chandrian_confrontation", "skin_dancers">>}
QueryArcIds == {"return_of_power", "chandrian_hunt", "side_arc"}

AddStoryArc ==
    \E id \in ArcIds, arc_points \in ArcLists :
        /\ nops < MaxPlotOps
        /\ SetManager(add_story_arc(Manager,
                                    StoryArc(id, "added arc", arc_points)))
        /\ last' = [op |-> "add_arc", id |-> id]
        /\ pre' = Snapshot
        /\ nops' = nops + 1
        /\ UNCHANGED engineVars

GetArcProgress ==
    \E arc_id \in QueryArcIds :
        /\ nops < MaxPlotOps
        /\ last' = [op |-> "get_arc_progress", arc_id |-> arc_id,
                    result |-> get_arc_progress(Manager, arc_id)]
        /\ pre' = Snapshot
        /\ nops' = nops + 1
        /\ UNCHANGED <<plot_points, unresolved_mysteries, revealed_secrets,
                       story_arcs, engineVars>>

NextArc == ResolvePlotPoint \/ AddStoryArc \/ GetArcProgress

SpecArc == Init /\ [][NextArc]_vars

DetermineArcPhase ==
    \E total \in 0..MaxTotal :
        \E resolved \in 0..total :
            /\ last' = [op |-> "determine_arc_phase", resolved |-> resolved,
                        total |-> total,
                        phase |-> determine_arc_phase(resolved, total)]
            /\ UNCHANGED <<plot_points, unresolved_mysteries,
                           revealed_secrets, story_arcs, engineVars, pre,
                           nops>>

NextPhase == DetermineArcPhase

SpecPhase == Init /\ [][NextPhase]_vars

-----------------------------------------------------------------------------
(* Direct calls on the plot manager, with points of two dependencies *)

TwoDeps == {<<"king_killing", "doors_of_stone">>}

AddPlotPointTwoDeps ==
    \E id \in AddIds, status \in AddStatuses, deps \in AddDeps \cup TwoDeps :
        AddPlotPointWith(id, status, deps)

NextDeps == AddPlotPointTwoDeps \/ IntroducePlotPoint \/ ResolvePlotPoint

SpecDeps == Init /\ [][NextDeps]_vars

-----------------------------------------------------------------------------
(* Direct calls on the plot manager with the suggestions query *)

\* the query assigns nothing; MaxPlotOps bounds the calls that change the
\* graph, and the query may follow any of them
SuggestNextPlotDevelopment ==
    /\ last' = [op |-> "suggest",
                result |-> suggest_next_plot_development(Manager)]
    /\ pre' = Snapshot
    /\ UNCHANGED <<plot_points, unresolved_mysteries, revealed_secrets,
                   story_arcs, engineVars, nops>>

NextSuggest ==
    \/ AddPlotPointTwoDeps \/ IntroducePlotPoint \/ ResolvePlotPoint
    \/ SuggestNextPlotDevelopment

SpecSuggest == Init /\ [][NextSuggest]_vars

-----------------------------------------------------------------------------
(* Claims about the plot graph, checked under SpecPlot *)

ResolvedKnown ==
    last.op = "resolve" /\ last.id \in DOMAIN pre.plot_points

UnknownIdCall ==
    last.op \in {"introduce", "resolve"} /\ last.id \notin DOMAIN pre.plot_points

DirectDependent(snap, B, A) ==
    /\ B \in DOMAIN snap.plot_points
    /\ B # A
    /\ Contains(snap.plot_points[B].dependencies, A)
    /\ snap.plot_points[B].status = PLANNED

\* C1: right after resolve(A, note, chapter) returns for a point A of the
\* graph, A is RESOLVED and not in `unresolved`, and every other point B that
\* listed A as a dependency and was PLANNED is ACTIVE and in `unresolved`.
C1_CascadeActivation ==
    ResolvedKnown =>
        /\ plot_points[last.id].status = RESOLVED
        /\ plot_points[last.id].chapter_resolved = last.chapter
        /\ last.id \notin unresolved_mysteries
        /\ \A B \in DOMAIN pre.plot_points :
              DirectDependent(pre, B, last.id) =>
                  /\ plot_points[B].status = ACTIVE
                  /\ B \in unresolved_mysteries

\* C1 witness: an introduced (ACTIVE, unresolved) point A was resolved while a
\* PLANNED point B depended on it; A moved to `revealed`.
C1_Witness ==
    /\ ResolvedKnown
    /\ pre.plot_points[last.id].status = ACTIVE
    /\ last.id \in pre.unresolved_mysteries
    /\ last.id \in revealed_secrets
    /\ \E B \in DOMAIN pre.plot_points :
          /\ DirectDependent(pre, B, last.id)
          /\ B \notin pre.unresolved_mysteries
          /\ plot_points[B].status = ACTIVE

Chain(snap, A, B, C) ==
    /\ DirectDependent(snap, B, A)
    /\ DirectDependent(snap, C, B)
    /\ C # A
    /\ ~Contains(snap.plot_points[C].dependencies, A)

\* C2: the cascade is single-level: when C depends on B, B depends on A, C
\* does not itself depend on A and B and C are PLANNED, resolve(A) makes B
\* ACTIVE and leaves C PLANNED with its membership in `unresolved` as it was;
\* a resolve(B) is what makes such a C ACTIVE.
C2_SingleLevelCascade ==
    ResolvedKnown =>
        \A B \in DOMAIN pre.plot_points, C \in DOMAIN pre.plot_points :
            Chain(pre, last.id, B, C) =>
                /\ plot_points[B].status = ACTIVE
                /\ plot_points[C].status = PLANNED
                /\ (C \in unresolved_mysteries) = (C \in pre.unresolved_mysteries)
                /\ resolve_plot_point(Manager, B, <<"done">>, last.chapter)
                      .pm.plot_points[C].status = ACTIVE

\* C2 witness: resolve(A) returned with a chain C -> B -> A of PLANNED points,
\* C outside `unresolved`.
C2_Witness ==
    /\ ResolvedKnown
    /\ \E B \in DOMAIN pre.plot_points, C \in DOMAIN pre.plot_points :
          /\ Chain(pre, last.id, B, C)
          /\ C \notin unresolved_mysteries
          /\ B \in unresolved_mysteries

\* C3 (as stated): introduce and resolve with an id that is not in the graph
\* fail with NotFound.
C3_UnknownIdRaisesNotFound ==
    UnknownIdCall => last.raised = "NotFound"

\* C3 (amended): introduce and resolve with an id that is not in the graph
\* return normally, without raising any error.
C3_UnknownIdReturnsNormally ==
    UnknownIdCall => last.raised = NoError

\* C3 witness: resolve was called with an id that is absent from the graph
\* and from both mystery sets, and returned.
C3_Witness ==
    /\ UnknownIdCall
    /\ last.op = "resolve"
    /\ last.id = "denna_secret"
    /\ last.id \notin pre.unresolved_mysteries \cup pre.revealed_secrets

\* C4: introduce and resolve with an id that is not in the graph leave every
\* plot point and both mystery sets exactly as they were, also when the id is
\* a member of `unresolved`.
C4_UnknownIdNoMutation ==
    UnknownIdCall => Manager = ManagerOf(pre)

\* C4 witness: resolve was called with a seeded mystery id that is in
\* `unresolved` but not in the graph.
C4_Witness ==
    /\ UnknownIdCall
    /\ last.op = "resolve"
    /\ last.id \in pre.unresolved_mysteries
    /\ last.id \in SeedMysteries

\* C10: no plot-point id is a member of both `unresolved` and `revealed`.
C10_MysterySetsDisjoint ==
    unresolved_mysteries \cap revealed_secrets = {}

\* C11: a point that has been the target of a successful introduce is from
\* then on a member of exactly one of `unresolved` and `revealed`.
C11_IntroducedInExactlyOneSet ==
    \A id \in DOMAIN plot_points :
        plot_points[id].chapter_introduced # NoChapter =>
            (id \in unresolved_mysteries) # (id \in revealed_secrets)

\* C12: every plot point whose chapter_introduced and chapter_resolved are
\* both set has chapter_resolved >= chapter_introduced.
C12_ChapterOrder ==
    \A id \in DOMAIN plot_points :
        (/\ plot_points[id].chapter_introduced # NoChapter
         /\ plot_points[id].chapter_resolved # NoChapter) =>
            plot_points[id].chapter_resolved
                >= plot_points[id].chapter_introduced

\* C14: resolving a point that is already RESOLVED keeps its status RESOLVED,
\* keeps its id in `revealed` if it was there, does not put it back into
\* `unresolved`, and appends the new resolution note to the existing notes.
C14_ResolveTwice ==
    (ResolvedKnown /\ pre.plot_points[last.id].status = RESOLVED) =>
        /\ plot_points[last.id].status = RESOLVED
        /\ (last.id \in pre.revealed_secrets => last.id \in revealed_secrets)
        /\ last.id \notin unresolved_mysteries
        /\ plot_points[last.id].notes =
               Append(pre.plot_points[last.id].notes,
                      [chapter |-> last.chapter,
                       resolution |-> last.resolution])

\* C14 witness: a point that was introduced and resolved once (so it is in
\* `revealed` and carries one note) was resolved a second time.
C14_Witness ==
    /\ ResolvedKnown
    /\ pre.plot_points[last.id].status = RESOLVED
    /\ Len(pre.plot_points[last.id].notes) = 1
    /\ last.id \in pre.revealed_secrets
    /\ Len(plot_points[last.id].notes) = 2

IntroducedKnown ==
    last.op = "introduce" /\ last.id \in DOMAIN pre.plot_points

\* C15: introduce on a point of the graph turns PLANNED into ACTIVE and adds
\* the id to `unresolved`, leaves any other status as it was, and a second
\* introduce with the same id and chapter changes nothing in the plot graph.
C15_IntroduceTransition ==
    IntroducedKnown =>
        /\ pre.plot_points[last.id].status = PLANNED =>
               /\ plot_points[last.id].status = ACTIVE
               /\ last.id \in unresolved_mysteries
        /\ pre.plot_points[last.id].status # PLANNED =>
               plot_points[last.id].status = pre.plot_points[last.id].status
        /\ introduce_plot_point(Manager, last.id, last.chapter).pm = Manager

\* C15 witness: introduce was called on a point that an earlier introduce
\* with the same chapter had already made ACTIVE.
C15_Witness ==
    /\ IntroducedKnown
    /\ pre.plot_points[last.id].status = ACTIVE
    /\ pre.plot_points[last.id].chapter_introduced = last.chapter
    /\ last.id \in pre.unresolved_mysteries
    /\ Manager = ManagerOf(pre)

DependencyRule(pp, p) ==
    \A i \in 1..Len(pp[p].dependencies) :
        \/ pp[p].dependencies[i] \notin DOMAIN pp
        \/ pp[pp[p].dependencies[i]].status = RESOLVED

AddedDependencyOf(p) ==
    /\ last.op = "add"
    /\ p # last.id
    /\ Contains(pre.plot_points[p].dependencies, last.id)
    /\ plot_points[last.id].status # RESOLVED
    /\ check_dependencies(ManagerOf(pre), p)

\* C16: for every point p of the graph check_dependencies(p) is true exactly
\* when each dependency of p is absent from the graph or RESOLVED; adding a
\* point that is not RESOLVED under the id of one of p's dependencies turns a
\* true answer for p into false.
C16_DependenciesSatisfied ==
    /\ \A p \in DOMAIN plot_points :
          check_dependencies(Manager, p) = DependencyRule(plot_points, p)
    /\ \A p \in DOMAIN pre.plot_points :
          AddedDependencyOf(p) => ~check_dependencies(Manager, p)

\* C16 witness: chandrian_confrontation, whose two dependencies were both
\* missing from the graph, had a true answer until denna_secret was added.
C16_Witness ==
    /\ AddedDependencyOf("chandrian_confrontation")
    /\ last.id = "denna_secret"
    /\ last.id \notin DOMAIN pre.plot_points
    /\ ~check_dependencies(Manager, "chandrian_confrontation")

-----------------------------------------------------------------------------
(* Claims about story arcs, checked under SpecArc and SpecPhase *)

\* C13: every plot-point id listed in the plot_points of any story arc is a
\* key of the plot graph, from the state right after initialization on.
C13_ArcReferentialIntegrity ==
    \A a \in DOMAIN story_arcs :
        \A i \in 1..Len(story_arcs[a].plot_points) :
            story_arcs[a].plot_points[i] \in DOMAIN plot_points

PhaseQueried == last.op = "determine_arc_phase"

PhaseRule(resolved, total, phase, nothing_resolved) ==
    /\ total = 0 => phase = PhaseNotStarted
    /\ (total > 0 /\ resolved = 0) => phase = nothing_resolved
    /\ (0 < resolved /\ 10 * resolved < 3 * total) => phase = PhaseRising
    /\ (3 * total <= 10 * resolved /\ 10 * resolved < 6 * total) =>
           phase = PhaseComplication
    /\ (6 * total <= 10 * resolved /\ 10 * resolved < 8 * total) =>
           phase = PhaseClimax
    /\ (8 * total <= 10 * resolved /\ resolved < total) =>
           phase = PhaseResolution
    /\ (total > 0 /\ resolved = total) => phase = PhaseComplete

\* C17 (as stated): the phase follows the breakpoints on the resolved
\* fraction p, and p = 0 gives 'not started' for a non-empty arc exactly as
\* for an arc without plot points.
C17_PhaseZeroIsNotStarted ==
    PhaseQueried =>
        PhaseRule(last.resolved, last.total, last.phase, PhaseNotStarted)

\* C17 (amended): the phase follows the breakpoints on the resolved fraction
\* p; an arc without plot points gives 'not started', and a non-empty arc
\* with nothing resolved gives 'exposition', a different label.
C17_PhaseBreakpoints ==
    /\ PhaseExposition # PhaseNotStarted
    /\ PhaseQueried =>
           PhaseRule(last.resolved, last.total, last.phase, PhaseExposition)

\* C17 witness: the phase of a non-empty arc with nothing resolved was
\* computed.
C17_Witness ==
    /\ PhaseQueried
    /\ last.total = 2
    /\ last.resolved = 0
    /\ last.phase = PhaseExposition

ProgressQueried ==
    last.op = "get_arc_progress" /\ last.arc_id \in DOMAIN pre.story_arcs

ResolvedPositions(snap, ids) ==
    {i \in 1..Len(ids) :
        /\ ids[i] \in DOMAIN snap.plot_points
        /\ snap.plot_points[ids[i]].status = RESOLVED}

HasMissingId(snap, ids) ==
    \E i \in 1..Len(ids) : ids[i] \notin DOMAIN snap.plot_points

\* C18: get_arc_progress reports as total the length of the arc's plot_points
\* list and as resolved the number of its entries that are in the graph with
\* status RESOLVED; the percentage is resolved / total * 100, and 0 for an
\* empty list; an arc with an id missing from the graph is never at 100% or
\* 'complete'; the query changes nothing in the plot manager.
C18_ArcProgressCounts ==
    ProgressQueried =>
        LET ids == pre.story_arcs[last.arc_id].plot_points
            r == last.result
        IN  /\ r.total = Len(ids)
            /\ r.resolved = Cardinality(ResolvedPositions(pre, ids))
            /\ r.total > 0 =>
                   r.progress_percentage.num * r.total
                       = r.resolved * 100 * r.progress_percentage.den
            /\ r.total = 0 => r.progress_percentage.num = 0
            /\ HasMissingId(pre, ids) =>
                   /\ r.resolved < r.total
                   /\ r.progress_percentage.num
                          # 100 * r.progress_percentage.den
                   /\ r.current_phase # PhaseComplete
            /\ Manager = ManagerOf(pre)

\* C18 witness: the progress of the seeded arc chandrian_hunt was queried
\* after its only existing point was resolved: 1 of 2, the other id missing.
C18_Witness ==
    /\ ProgressQueried
    /\ last.arc_id = "chandrian_hunt"
    /\ HasMissingId(pre, pre.story_arcs[last.arc_id].plot_points)
    /\ last.result.resolved = 1
    /\ last.result.total = 2
    /\ last.result.current_phase = PhaseComplication

-----------------------------------------------------------------------------
(* Appends to the context window *)

UpdateContext ==
    \E new_text \in Texts :
        /\ nops < MaxAppends
        /\ context_window' = update_context(context_window, new_text)
        /\ last' = [op |-> "update_context", text |-> new_text]
        /\ pre' = Snapshot
        /\ nops' = nops + 1
        /\ UNCHANGED <<plot_points, unresolved_mysteries, revealed_secrets,
                       story_arcs, generated_chapters, chapter_metadata,
                       current_session, inflight>>

NextCtx == UpdateContext

SpecCtx == Init /\ [][NextCtx]_vars

-----------------------------------------------------------------------------
(* Claims about the context window, checked under SpecCtx *)

Appended == last.op = "update_context"

Min(a, b) == IF a <= b THEN a ELSE b

\* f is the string t cut to at most FragmentCap characters
IsCapOf(f, t) ==
    /\ StrLen(f) = Min(StrLen(t), FragmentCap)
    /\ Len(f) <= Len(t)
    /\ \A i \in 1..Len(f) :
          /\ f[i].c = t[i].c
          /\ IF i < Len(f) THEN f[i].n = t[i].n ELSE f[i].n <= t[i].n

Newest(win) == win[Len(win)]

Evicted == Len(pre.context_window) + 1 - Len(context_window)

\* C7: after every append the lengths of the fragments in the context window
\* sum to at most max_context_size.
C7_ContextBound ==
    SumLen(context_window) <= max_context_size

\* C7 witness: an append returned whose text brought the cumulative length of
\* the kept fragments over max_context_size, and a fragment was evicted.
C7_Witness ==
    /\ Appended
    /\ SumLen(pre.context_window) + Min(StrLen(last.text), FragmentCap)
          > max_context_size
    /\ Evicted >= 1
    /\ SumLen(context_window) <= max_context_size

\* C8: after every append the context window is non-empty and its last
\* element is the appended text cut to the per-fragment cap.
C8_NewestKept ==
    Appended =>
        /\ context_window # <<>>
        /\ IsCapOf(Newest(context_window), last.text)

\* C8 witness: a text longer than max_context_size was appended to a window
\* that was full, fragments were evicted and the new fragment is the last one.
C8_Witness ==
    /\ Appended
    /\ StrLen(last.text) > max_context_size
    /\ SumLen(pre.context_window) = max_context_size
    /\ Evicted >= 1
    /\ StrLen(Newest(context_window)) = FragmentCap

\* C9: the window after an append is a suffix of the window before it followed
\* by the capped new fragment, and no more fragments are evicted from the
\* front than needed to bring the total within max_context_size.
C9_OldestFirstMinimal ==
    Appended =>
        /\ context_window # <<>>
        /\ Evicted \in 0..Len(pre.context_window)
        /\ IsCapOf(Newest(context_window), last.text)
        /\ SubSeq(context_window, 1, Len(context_window) - 1)
              = SubSeq(pre.context_window, Evicted + 1,
                       Len(pre.context_window))
        /\ Evicted >= 1 =>
              SumLen(SubSeq(pre.context_window, Evicted,
                            Len(pre.context_window)))
                 + StrLen(Newest(context_window)) > max_context_size

\* C9 witness: an append evicted exactly the oldest fragment of a window that
\* held fragments of different lengths, keeping the rest in order.
C9_Witness ==
    /\ Appended
    /\ Evicted = 1
    /\ Len(context_window) >= 3
    /\ StrLen(pre.context_window[1]) # StrLen(pre.context_window[2])
    /\ context_window[1] = pre.context_window[2]

-----------------------------------------------------------------------------
(* Claims about generate_chapter, checked under SpecEngine *)

GenerationFailed ==
    /\ last.op = "generate_chapter"
    /\ last.generator.raised # NoError

\* C5: a generate_chapter call whose generator invocation raises leaves the
\* chapter texts, the chapter metadata, the plot graph with both mystery sets
\* and the context window as they were before the call, and the generator's
\* error reaches the caller.
C5_FailedGenerationKeepsState ==
    GenerationFailed =>
        /\ generated_chapters = pre.generated_chapters
        /\ chapter_metadata = pre.chapter_metadata
        /\ Manager = ManagerOf(pre)
        /\ context_window = pre.context_window
        /\ last.raised = last.generator.raised

\* C5 witness: the generator raised in a call whose config lists points to
\* introduce and to resolve, on an engine that already held a chapter.
C5_Witness ==
    /\ GenerationFailed
    /\ last.config.plot_points_to_introduce # <<>>
    /\ last.config.plot_points_to_resolve # <<>>
    /\ DOMAIN generated_chapters # {}
    /\ context_window # <<>>
    /\ plot_points["king_killing"].status = PLANNED

\* C6 (as stated): a failed generator invocation leaves the session as it was:
\* none before the call means none after it, and an existing session keeps its
\* chapters_generated and total_words.
C6_FailedGenerationKeepsSession ==
    GenerationFailed => current_session = pre.current_session

\* C6 (amended): after a failed generator invocation the only change to the
\* engine state is the session created at the start of the call: when no
\* session existed, an empty one (no chapters, zero words) exists; an existing
\* session keeps its chapters_generated and total_words.
C6_FailedGenerationOnlyEnsuresSession ==
    GenerationFailed =>
        /\ pre.current_session = NoSession => current_session = NewSession
        /\ pre.current_session # NoSession =>
              current_session = pre.current_session
        /\ Snapshot = [pre EXCEPT !.current_session = current_session]

\* C6 witness: the generator raised in a call made while a session with one
\* generated chapter existed.
C6_Witness ==
    /\ GenerationFailed
    /\ pre.current_session # NoSession
    /\ Len(current_session[1].chapters_generated) = 1
    /\ current_session[1].total_words > 0

-----------------------------------------------------------------------------
(* Claims about continue_chapter, checked under SpecContinue *)

\* continue_chapter has returned or raised and no later call has started
ContinueReturned == last.op = "continue_chapter" /\ inflight = <<>>

\* C19: continue_chapter with a chapter number that has no stored text fails
\* with the not-found error without invoking the generator, and leaves the
\* chapter texts, metadata, plot manager, context window and session as they
\* were.
C19_ContinueUnknownChapter ==
    (ContinueReturned
        /\ last.chapter_number \notin DOMAIN pre.generated_chapters) =>
            /\ last.raised = ChapterNotFound
            /\ ~last.generator_invoked
            /\ Snapshot = pre

\* C19 witness: a chapter was generated in a session, and continue_chapter
\* was then called for another chapter number that has no stored text.
C19_Witness ==
    /\ ContinueReturned
    /\ last.chapter_number \notin DOMAIN pre.generated_chapters
    /\ DOMAIN pre.generated_chapters # {}
    /\ pre.current_session # NoSession
    /\ last.raised = ChapterNotFound

RECURSIVE Drop(_, _)
Drop(t, k) ==
    IF t = <<>> \/ k <= 0 THEN t
    ELSE IF Head(t).n <= k THEN Drop(Tail(t), k - Head(t).n)
         ELSE <<Run(Head(t).c, Head(t).n - k)>> \o Tail(t)

ContinueSucceeded == ContinueReturned /\ last.raised = NoError

\* C20: a successful continue_chapter(n) stores for chapter n the previous
\* text, then a blank line ("\n\n"), then the continuation, sets that
\* chapter's word_count to the number of words of the full text, and leaves
\* the plot manager, the context window and the text of every other chapter
\* unchanged.
C20_ContinueAppends ==
    ContinueSucceeded =>
        LET n == last.chapter_number
            old == pre.generated_chapters[n]
            new == generated_chapters[n]
        IN  /\ StrLen(new) = StrLen(old) + 2 + StrLen(last.generator.text)
            /\ Prefix(new, StrLen(old)) = old
            /\ Prefix(Drop(new, StrLen(old)), 2) = BlankLine
            /\ Drop(new, StrLen(old) + 2) = last.generator.text
            /\ chapter_metadata[n].word_count = WordCount(new)
            /\ Manager = ManagerOf(pre)
            /\ context_window = pre.context_window
            /\ DOMAIN generated_chapters = DOMAIN pre.generated_chapters
            /\ \A m \in DOMAIN pre.generated_chapters :
                  m # n => generated_chapters[m] = pre.generated_chapters[m]

\* C20 witness: two chapters were stored and one of them, a text of two
\* words, was continued by a third word.
C20_Witness ==
    /\ ContinueSucceeded
    /\ Cardinality(DOMAIN pre.generated_chapters) = 2
    /\ pre.chapter_metadata[last.chapter_number].word_count = 2
    /\ chapter_metadata[last.chapter_number].word_count = 3
    /\ context_window # <<>>

-----------------------------------------------------------------------------
(* Claims about stage 8 of generate_chapter, checked under SpecStage8 *)

GeneratorReturned ==
    /\ last.op = "generate_chapter"
    /\ last.generator.raised = NoError

HasUnknownId(snap, config) ==
    \E i \in 1..Len(config.plot_points_to_introduce \o
                     config.plot_points_to_resolve) :
        (config.plot_points_to_introduce \o config.plot_points_to_resolve)[i]
            \notin DOMAIN snap.plot_points

SessionAtAwait(snap) ==
    IF snap.current_session = NoSession THEN NewSession
    ELSE snap.current_session

\* C21: when the generator has returned for a config whose introduce or
\* resolve list names an id unknown to the plot graph, the call succeeds; the
\* plot manager is the one obtained by applying, in order, every introduce
\* and then every resolve of the known ids; the text and its context-window
\* entry are kept; the session has the chapter appended and the words added.
C21_Stage8SkipsUnknownIds ==
    (GeneratorReturned /\ HasUnknownId(pre, last.config)) =>
        LET config == last.config
            n == config.chapter_number
            mgr == ManagerOf(pre)
            introduced ==
                IntroduceAll(mgr, KnownOnly(mgr, config.plot_points_to_introduce),
                             n).pm
            resolved ==
                ResolveAll(introduced,
                           KnownOnly(mgr, config.plot_points_to_resolve), n).pm
        IN  /\ last.raised = NoError
            /\ Manager = resolved
            /\ generated_chapters[n] = last.generator.text
            /\ context_window =
                   update_context(pre.context_window, last.generator.text)
            /\ current_session =
                   SessionAdd(SessionAtAwait(pre), n,
                              WordCount(last.generator.text))

\* C21 witness: a call introduced king_killing and doors_of_stone around the
\* unknown skin_dancers and resolved both around the unknown amyr_truth.
C21_Witness ==
    /\ GeneratorReturned
    /\ Len(last.config.plot_points_to_introduce) = 3
    /\ Len(last.config.plot_points_to_resolve) = 3
    /\ pre.plot_points["king_killing"].status = PLANNED
    /\ pre.plot_points["doors_of_stone"].status = PLANNED
    /\ plot_points["king_killing"].status = RESOLVED
    /\ plot_points["doors_of_stone"].status = RESOLVED
    /\ {"king_killing", "doors_of_stone"} \subseteq revealed_secrets
    /\ "skin_dancers" \in unresolved_mysteries

-----------------------------------------------------------------------------
(* Claims about overlapping generate_chapter calls, checked under SpecOverlap *)

CallStarts == Len(inflight') > Len(inflight)

CallCompletes == Len(inflight') < Len(inflight)

\* C22: a generate_chapter call creates an empty session when there is none
\* and otherwise leaves the session alone; each call that completes
\* successfully appends its chapter number to chapters_generated and adds its
\* word count to total_words, and a failed call changes neither, so the
\* session lists the successful calls in completion order with the sum of
\* their word counts.
C22_SessionAccounting ==
    [][/\ CallStarts =>
             current_session' = SessionAtAwait(Snapshot)
       /\ (CallCompletes /\ last'.raised = NoError) =>
             /\ current_session # NoSession
             /\ Len(current_session') = 1
             /\ current_session'[1].chapters_generated =
                    Append(current_session[1].chapters_generated,
                           last'.config.chapter_number)
             /\ current_session'[1].total_words =
                    current_session[1].total_words
                        + WordCount(last'.generator.text)
       /\ (CallCompletes /\ last'.raised # NoError) =>
             current_session' = current_session]_vars

\* C22 witness: a call failed after an overlapping call for chapter 2 had
\* completed with a text of two words; the session lists chapter 2 only.
C22_Witness ==
    /\ last.op = "generate_chapter"
    /\ last.raised # NoError
    /\ Len(last.overlapped) = 1
    /\ current_session = <<[chapters_generated |-> <<2>>, total_words |-> 2]>>

RECURSIVE RunInOrder(_, _)
RunInOrder(st, calls) ==
    IF calls = <<>> THEN st
    ELSE RunInOrder(
            generate_chapter_resume(generate_chapter_begin(st),
                                    Head(calls).config, Head(calls).result).st,
            Tail(calls))

ThisCall == [config |-> last.config, result |-> last.generator]

\* C29: when a generate_chapter call returns, the engine state (texts,
\* metadata, plot manager, context window, session) is the state reached by
\* running, one after the other from the state in which the call was made,
\* the calls that completed while it was suspended, in the order of their
\* completion, and then the call itself.
C29_Serializable ==
    last.op = "generate_chapter" =>
        Snapshot = RunInOrder(pre, Append(last.overlapped, ThisCall))

\* C29 witness: two calls were suspended together and both succeeded; the one
\* made first completed last, and running them in the order of the calls
\* would have given a different state.
C29_Witness ==
    /\ last.op = "generate_chapter"
    /\ last.raised = NoError
    /\ Len(last.overlapped) = 1
    /\ last.overlapped[1].result.raised = NoError
    /\ pre.current_session = NoSession
    /\ inflight = <<>>
    /\ Snapshot # RunInOrder(pre, <<ThisCall>> \o last.overlapped)

-----------------------------------------------------------------------------
(* Claims about the stages of generate_chapter, checked under SpecStages *)

\* the call has stored its text and has not yet updated the session
Recorded(call) == call.at \in {"context", "plots", "session"}

AtGenerator(calls) == {j \in 1..Len(calls) : calls[j].at = "generator"}

SnapshotAfter ==
    [plot_points |-> plot_points',
     unresolved_mysteries |-> unresolved_mysteries',
     revealed_secrets |-> revealed_secrets',
     story_arcs |-> story_arcs',
     generated_chapters |-> generated_chapters',
     chapter_metadata |-> chapter_metadata',
     context_window |-> context_window',
     current_session |-> current_session']

\* C23: while a call has recorded its chapter text and has not yet applied
\* its context, plot and session updates, no other call takes a step (none
\* starts, none is resumed from the generator), and when the call returns the
\* engine is in the state that stages 6 to 8 produce in one block from the
\* state in which the generator returned.
C23_StagesUninterrupted ==
    [][\A i \in 1..Len(inflight) :
          Recorded(inflight[i]) =>
              /\ Len(inflight') <= Len(inflight)
              /\ Cardinality(AtGenerator(inflight'))
                     = Cardinality(AtGenerator(inflight))
              /\ Len(inflight') < Len(inflight) =>
                     SnapshotAfter =
                         RecordChapter(inflight[i].resumed, inflight[i].config,
                                       inflight[i].text).st]_vars

\* C23 witness: a call has stored its text and not yet updated the plot
\* graph while another call is suspended at the generator.
C23_Witness ==
    \E i, j \in 1..Len(inflight) :
        /\ inflight[i].at = "plots"
        /\ inflight[i].config.plot_points_to_introduce # <<>>
        /\ inflight[j].at = "generator"
        /\ plot_points["king_killing"].status = PLANNED

-----------------------------------------------------------------------------
(* Claims about suggest_next_plot_development, checked under SpecSuggest *)

Suggested == last.op = "suggest"

Ids(plots) == {plots[i].id : i \in 1..Len(plots)}

Entries(seq) == {seq[i] : i \in 1..Len(seq)}

PlannedIds(snap) ==
    {id \in DOMAIN snap.plot_points : snap.plot_points[id].status = PLANNED}

HasUnmetDependency(snap, id) ==
    \E i \in 1..Len(snap.plot_points[id].dependencies) :
        snap.plot_points[id].dependencies[i] \notin snap.revealed_secrets

\* C24: `ready` holds exactly the PLANNED points whose every dependency is
\* absent from the graph or RESOLVED; `building` holds exactly the PLANNED
\* points with a dependency id that is not in `revealed`, each with the list
\* of those dependency ids; no point is listed twice, and the query changes
\* nothing in the plot manager.
C24_SuggestionBuckets ==
    Suggested =>
        LET ready == last.result.ready
            building == last.result.building
        IN  /\ Ids(ready) =
                   {id \in PlannedIds(pre) :
                       DependencyRule(pre.plot_points, id)}
            /\ Len(ready) = Cardinality(Ids(ready))
            /\ Entries(ready) \subseteq
                   {pre.plot_points[id] : id \in DOMAIN pre.plot_points}
            /\ Entries(building) =
                   {[plot |-> pre.plot_points[id],
                     needs |-> SelectSeq(pre.plot_points[id].dependencies,
                                 LAMBDA d : d \notin pre.revealed_secrets)] :
                       id \in {p \in PlannedIds(pre) :
                                  HasUnmetDependency(pre, p)}}
            /\ Len(building) = Cardinality(Entries(building))
            /\ Manager = ManagerOf(pre)

\* C24 witness: king_killing was introduced and resolved, so it is in
\* `revealed`, and denna_secret was then added as a PLANNED point depending on
\* king_killing and doors_of_stone; the query lists denna_secret under
\* `building` with doors_of_stone alone as what it needs, and not under
\* `ready`.
C24_Witness ==
    /\ Suggested
    /\ "denna_secret" \in PlannedIds(pre)
    /\ pre.plot_points["denna_secret"].dependencies
           = <<"king_killing", "doors_of_stone">>
    /\ "king_killing" \in pre.revealed_secrets
    /\ [plot |-> pre.plot_points["denna_secret"],
        needs |-> <<"doors_of_stone">>] \in Entries(last.result.building)
    /\ "denna_secret" \notin Ids(last.result.ready)
    /\ "doors_of_stone" \in Ids(last.result.ready)

\* C25: the `ready` and `building` buckets of suggest_next_plot_development
\* have no point in common, in the seeded state and in every later state.
C25_ReadyBuildingDisjoint ==
    LET s == suggest_next_plot_development(Manager)
    IN  Ids(s.ready) \cap {s.building[i].plot.id : i \in 1..Len(s.building)}
            = {}

-----------------------------------------------------------------------------
(* Claims about the cascade and RESOLVED points *)

CascadeActivated(B) ==
    /\ ResolvedKnown
    /\ B # last.id
    /\ pre.plot_points[B].status = PLANNED
    /\ plot_points[B].status = ACTIVE

\* C26: whenever resolve(A) turns a dependent point B from PLANNED to ACTIVE,
\* check_dependencies(B) is true right after the call.  Checked under
\* SpecDeps.
C26_CascadeRespectsReadiness ==
    \A B \in DOMAIN pre.plot_points :
        CascadeActivated(B) => check_dependencies(Manager, B)

ResolvedCounts ==
    [a \in DOMAIN story_arcs |->
        ResolvedCount(plot_points, story_arcs[a].plot_points)]

ResolvedCountsAfter ==
    [a \in DOMAIN story_arcs |->
        ResolvedCount(plot_points', story_arcs[a].plot_points)]

IntroduceOrResolveStep == last'.op \in {"introduce", "resolve"}

\* C27: every introduce or resolve call, cascade included, leaves a point that
\* is RESOLVED in status RESOLVED, takes no id out of `revealed`, and for no
\* arc lowers the number of resolved points that get_arc_progress reports.
\* Checked under SpecDeps on the steps that are introduce or resolve calls.
C27_ResolvedAbsorbing ==
    [][IntroduceOrResolveStep =>
         /\ \A id \in DOMAIN plot_points :
               plot_points[id].status = RESOLVED =>
                   /\ id \in DOMAIN plot_points'
                   /\ plot_points'[id].status = RESOLVED
         /\ revealed_secrets \subseteq revealed_secrets'
         /\ \A a \in DOMAIN story_arcs :
               ResolvedCountsAfter[a] >= ResolvedCounts[a]]_vars

\* C27 witness: denna_secret, a point that depends on king_killing, was
\* RESOLVED when king_killing was resolved; the cascade loop met it as a
\* dependent and it is still RESOLVED.
C27_Witness ==
    /\ last.op = "resolve"
    /\ last.id = "king_killing"
    /\ "denna_secret" \in DOMAIN pre.plot_points
    /\ Contains(pre.plot_points["denna_secret"].dependencies, "king_killing")
    /\ pre.plot_points["denna_secret"].status = RESOLVED
    /\ plot_points["denna_secret"].status = RESOLVED
    /\ plot_points["king_killing"].status = RESOLVED

-----------------------------------------------------------------------------
(* Claims about the word counts *)

RECURSIVE SumWordCounts(_, _)
SumWordCounts(metadata, numbers) ==
    IF numbers = {} THEN 0
    ELSE LET n == CHOOSE n \in numbers : TRUE
         IN  metadata[n].word_count + SumWordCounts(metadata, numbers \ {n})

\* C28: when a session is active and no call is suspended, the session's
\* total_words equals the sum of the word_count metadata of all stored
\* chapters, after any generate_chapter and continue_chapter calls.  Checked
\* under SpecContinue.
C28_WordCountConsistency ==
    (current_session # NoSession /\ inflight = <<>>) =>
        current_session[1].total_words =
            SumWordCounts(chapter_metadata, DOMAIN chapter_metadata)

-----------------------------------------------------------------------------
(* Claims about overlapping continue_chapter calls, checked under            *)
(* SpecInterleaved                                                           *)

\* the calls on the chapter of the last call that returned successfully while
\* the last call was suspended, one of the two being a continue_chapter
OverlappedOnSameChapter ==
    IF last.op \in {"generate_chapter", "continue_chapter"}
           /\ last.raised = NoError
    THEN {j \in 1..Len(last.overlapped) :
             /\ last.overlapped[j].chapter_number = last.chapter_number
             /\ last.overlapped[j].raised = NoError
             /\ "continue_chapter" \in {last.op, last.overlapped[j].op}}
    ELSE {}

\* C30: when two continue_chapter calls on one chapter number, or a
\* continue_chapter and a generate_chapter for it, overlapped at the await
\* and both returned successfully, the stored text of the chapter contains the
\* text each of them received and the chapter's word_count is that of the
\* stored text.
C30_NoContinuationLost ==
    OverlappedOnSameChapter # {} =>
        LET n == last.chapter_number
            stored == generated_chapters[n]
        IN  /\ Occurs(last.generator.text, stored)
            /\ \A j \in OverlappedOnSameChapter :
                  Occurs(last.overlapped[j].result.text, stored)
            /\ chapter_metadata[n].word_count = WordCount(stored)

=============================================================================
